---- MODULE Spec2Model ----
(***************************************************************************)
(* Model of src/app.py: the snake_case alias injector for Avro schemas.    *)
(*                                                                         *)
(* A JSON value is a tagged record: Str(s) a string, List(l) a list,       *)
(* Dict(d) an object whose keys are DOMAIN d.  A `name` and every entry of *)
(* an `aliases` list is a sequence of one-character strings, so that       *)
(* to_snake_case and str.removeprefix work on characters.  The schema is a *)
(* tree (json.load never yields shared objects), so a reference to a node  *)
(* is the path to it, and an in-place update is an update at that path.    *)
(***************************************************************************)
EXTENDS Integers, Sequences, FiniteSets, TLC

----------------------------------------------------------------------------
(* Bounds *)

\* longest input of the to_snake_case specification
MaxNameLen == 4
\* most dicts, lists and fields in an input schema
MaxNodes == 4
\* most calls of add_aliases_to_avro_schema on the same tree
MaxRuns == 2

----------------------------------------------------------------------------
(* Characters and strings *)

UpperAZ == <<"A","B","C","D","E","F","G","H","I","J","K","L","M",
             "N","O","P","Q","R","S","T","U","V","W","X","Y","Z">>
LowerAZ == <<"a","b","c","d","e","f","g","h","i","j","k","l","m",
             "n","o","p","q","r","s","t","u","v","w","x","y","z">>

\* the regex class [A-Z]
UpperSet == {UpperAZ[i] : i \in 1..Len(UpperAZ)}
IsUpperAZ(c) == c \in UpperSet

\* str.lower() on one character: the letter of LowerAZ at the place the
\* character has in UpperAZ, any other character as it is
LowerOf == [c \in UpperSet |-> LowerAZ[CHOOSE i \in 1..Len(UpperAZ) : UpperAZ[i] = c]]
LowerChar(c) == IF IsUpperAZ(c) THEN LowerOf[c] ELSE c

\* str.lower()
Lower(s) == [i \in 1..Len(s) |-> LowerChar(s[i])]

\* re.sub(r'(?<!^)(?=[A-Z])', '_', name): an underscore at every position that
\* is not the start of the string and is followed by a character of [A-Z]
RECURSIVE SubFrom(_, _)
SubFrom(name, i) ==
    IF i > Len(name) THEN <<>>
    ELSE (IF i # 1 /\ IsUpperAZ(name[i]) THEN <<"_", name[i]>> ELSE <<name[i]>>)
         \o SubFrom(name, i + 1)

ReSub(name) == SubFrom(name, 1)

\* a faulty variant: the pattern without (?<!^), an underscore at the start too
RECURSIVE SubAll(_, _)
SubAll(name, i) ==
    IF i > Len(name) THEN <<>>
    ELSE (IF IsUpperAZ(name[i]) THEN <<"_", name[i]>> ELSE <<name[i]>>)
         \o SubAll(name, i + 1)

to_snake_case_AtStart(name) == Lower(SubAll(name, 1))

to_snake_case(name) == Lower(ReSub(name))

\* a faulty variant: the prefix matched without regard to case
removeprefix_IgnoreCase(s, p) ==
    IF Len(p) <= Len(s) /\ Lower(SubSeq(s, 1, Len(p))) = Lower(p)
    THEN SubSeq(s, Len(p) + 1, Len(s))
    ELSE s

\* str.removeprefix(prefix)
removeprefix(s, p) ==
    IF Len(p) <= Len(s) /\ SubSeq(s, 1, Len(p)) = p
    THEN SubSeq(s, Len(p) + 1, Len(s))
    ELSE s

----------------------------------------------------------------------------
(* JSON values *)

Str(s)  == [str |-> s]
List(l) == [list |-> l]
Dict(d) == [dict |-> d]

\* isinstance(x, dict), isinstance(x, list)
IsDict(x) == "dict" \in DOMAIN x
IsList(x) == "list" \in DOMAIN x

Has(x, key) == key \in DOMAIN x.dict

\* Python's None
None == [none |-> TRUE]
\* dict.get(key)
DictGet(x, key) == IF Has(x, key) THEN x.dict[key] ELSE None

\* d[key] = val, adding the key when it is absent
SetKey(x, key, val) ==
    Dict([kk \in DOMAIN x.dict \cup {key} |-> IF kk = key THEN val ELSE x.dict[kk]])

\* One step of a path: a key of a dict ("type", "items", "values"), entry idx
\* of a dict's "fields" list, or entry idx of a list ("elem").
Step(key, idx) == [key |-> key, idx |-> idx]

Child(x, s) ==
    IF s.key = "elem" THEN x.list[s.idx]
    ELSE IF s.key = "fields" THEN x.dict.fields[s.idx]
    ELSE x.dict[s.key]

RECURSIVE NodeAt(_, _)
NodeAt(x, path) ==
    IF path = <<>> THEN x ELSE NodeAt(Child(x, Head(path)), Tail(path))

RECURSIVE Update(_, _, _)
Update(x, path, new) ==
    IF path = <<>> THEN new
    ELSE LET s == Head(path)
             c == Update(Child(x, s), Tail(path), new)
         IN  IF s.key = "elem" THEN List([x.list EXCEPT ![s.idx] = c])
             ELSE IF s.key = "fields"
                  THEN Dict([x.dict EXCEPT !.fields = [@ EXCEPT ![s.idx] = c]])
                  ELSE Dict([x.dict EXCEPT ![s.key] = c])

----------------------------------------------------------------------------
(* The functions of src/app.py that change one node *)

\* a faulty variant: an alias already in the list is not added again
AppendAlias_Dedup(x, a) ==
    IF Has(x, "aliases")
    THEN (IF \E i \in 1..Len(x.dict.aliases) : x.dict.aliases[i] = a
          THEN x
          ELSE SetKey(x, "aliases", Append(x.dict.aliases, a)))
    ELSE SetKey(x, "aliases", <<a>>)

\* schema["aliases"].append(a), or schema["aliases"] = [a] when the key is absent
AppendAlias(x, a) ==
    IF Has(x, "aliases")
    THEN SetKey(x, "aliases", Append(x.dict.aliases, a))
    ELSE SetKey(x, "aliases", <<a>>)

add_alias_to_record(schema, prepend_subject_name) ==
    IF Has(schema, "name")
    THEN AppendAlias(schema,
             to_snake_case(removeprefix(schema.dict.name, prepend_subject_name)))
    ELSE schema

\* field["name"] raises KeyError when the key is absent
FieldNameError(field) == ~Has(field, "name")

\* a faulty variant: the field is renamed as well
add_alias_to_field_Rename(field) ==
    SetKey(AppendAlias(field, to_snake_case(field.dict.name)),
           "name", to_snake_case(field.dict.name))

add_alias_to_field(field) == AppendAlias(field, to_snake_case(field.dict.name))

\* field["type"] raises KeyError when the key is absent
FieldTypeError(field) == ~Has(field, "type")

----------------------------------------------------------------------------
(* Input schemas *)

NameUserOrderCreatedEvent ==
    <<"U","s","e","r","O","r","d","e","r","C","r","e","a","t","e","d",
      "E","v","e","n","t">>
NameLineItem == <<"L","i","n","e","I","t","e","m">>
NameOrderId  == <<"o","r","d","e","r","I","d">>
NameUserId   == <<"U","s","e","r","I","d">>
NameSuit     == <<"S","u","i","t">>
OldAlias     == <<"o","l","d">>
PrefixUser   == <<"U","s","e","r">>
PrefixLower  == <<"u","s","e","r">>

Prefixes == { <<>>, PrefixUser, PrefixLower }

\* a record without `fields`: with a name, with a name and an alias list,
\* without a name
RecordLeaves ==
    { Dict([type |-> Str("record"), name |-> NameUserOrderCreatedEvent,
            doc |-> Str("doc")]),
      Dict([type |-> Str("record"), name |-> NameLineItem,
            aliases |-> <<OldAlias>>]),
      Dict([type |-> Str("record"), namespace |-> Str("ns")]) }

\* the same records with the list fs as their `fields`
RecordNodes(fs) ==
    { Dict([type |-> Str("record"), name |-> NameUserOrderCreatedEvent,
            doc |-> Str("doc"), fields |-> fs]),
      Dict([type |-> Str("record"), name |-> NameLineItem,
            aliases |-> <<OldAlias>>, fields |-> fs]),
      Dict([type |-> Str("record"), namespace |-> Str("ns"), fields |-> fs]) }

\* a field of type t: with a name, with a name and an alias list
FieldNodes(t) ==
    { Dict([name |-> NameOrderId, type |-> t]),
      Dict([name |-> NameUserId, aliases |-> <<OldAlias>>, doc |-> Str("doc"),
            type |-> t]) }

\* a field without `name`, a field without `type`
FieldNoName == Dict([type |-> Str("string"), default |-> Str("x")])
FieldNoType == Dict([name |-> NameOrderId])

EnumNode   == Dict([type |-> Str("enum"), name |-> NameSuit,
                    symbols |-> Str("symbols")])
NoTypeNode == Dict([name |-> NameSuit])
LeafRecord == Dict([type |-> Str("record"), name |-> NameLineItem])

\* a map of strings, a map of records
MapNodes ==
    { Dict([type |-> Str("map"), values |-> Str("string")]),
      Dict([type |-> Str("map"),
            values |-> Dict([type |-> Str("record"), name |-> NameLineItem,
                             fields |-> <<Dict([name |-> NameOrderId,
                                                type |-> Str("string")])>>])]) }

\* The schemas made of exactly n dicts, lists and fields (a map counts as one,
\* whatever its values), built from those of fewer: T[c] the values a `type`,
\* `items` or `values` key can hold, D[c] the dicts among them, F[c] the
\* `fields` lists.
LevelF(g, n) ==
    IF n = 0 THEN {<<>>}
    ELSE UNION { UNION { {<<f>> \o r : f \in FieldNodes(t), r \in g.F[n - 1 - c]} :
                         t \in g.T[c] } :
                 c \in 0..(n - 1) }
         \cup {<<f>> \o r : f \in {FieldNoName, FieldNoType}, r \in g.F[n - 1]}

LevelD(g, n) ==
    IF n = 0 THEN {}
    ELSE (IF n = 1 THEN {EnumNode, NoTypeNode} \cup MapNodes \cup RecordLeaves
                   ELSE {})
         \cup UNION {RecordNodes(fs) : fs \in g.F[n - 1]}
         \cup {Dict([type |-> Str("array"), items |-> t]) : t \in g.T[n - 1]}

LevelT(g, n, d) ==
    IF n = 0 THEN {Str("string")}
    ELSE d \cup {List(<<Str("null"), t>>) : t \in g.T[n - 1]}
           \cup (IF n >= 2 THEN {List(<<t, LeafRecord>>) : t \in g.D[n - 2]}
                           ELSE {})

Extend(f, n, val) == [c \in 0..n |-> IF c = n THEN val ELSE f[c]]

RECURSIVE Generate(_)
Generate(n) ==
    LET g == IF n = 0 THEN [T |-> <<>>, D |-> <<>>, F |-> <<>>]
                      ELSE Generate(n - 1)
        d == LevelD(g, n)
    IN  [T |-> Extend(g.T, n, LevelT(g, n, d)),
         D |-> Extend(g.D, n, d),
         F |-> Extend(g.F, n, LevelF(g, n))]

\* the schemas of n nodes
Schemas(n) == LevelD(Generate(n - 1), n)

----------------------------------------------------------------------------
(* State *)

VARIABLES
    schema,                 \* the schema object that load_schema returned
    prepend_subject_name,   \* the prefix handed to add_aliases_to_avro_schema
    stack,                  \* the active calls, innermost last
    status,                 \* "idle", "running", "returned" or "raised"
    runs,                   \* calls of add_aliases_to_avro_schema so far
    before,                 \* history: the schema when the latest call began
    input,                  \* history: the schema as first loaded
    name,                   \* the argument of a call of to_snake_case alone
    snake                   \* what that call returned

vars == <<schema, prepend_subject_name, stack, status, runs, before, input,
          name, snake>>

\* An active call.  traverse_schema: i = 0 before its first statement, and
\* i >= 1 when its loop is about to take field i.  _traverse_type (on a
\* list): i is the member its loop is about to take.
Frame(fn, path, i) == [fn |-> fn, path |-> path, i |-> i]

Top == stack[Len(stack)]
Rest == SubSeq(stack, 1, Len(stack) - 1)

\* a faulty variant: a union is not looked into
Dispatch_NoUnion(path, type_obj) ==
    IF IsDict(type_obj) THEN <<Frame("traverse_schema", path, 0)>> ELSE <<>>

\* _traverse_type(type_obj): the calls it starts.  On a dict it only calls
\* traverse_schema and returns, so its own frame is not kept.
Dispatch(path, type_obj) ==
    IF IsDict(type_obj) THEN <<Frame("traverse_schema", path, 0)>>
    ELSE IF IsList(type_obj) THEN <<Frame("_traverse_type", path, 1)>>
    ELSE <<>>

\* The calls left; when none is, traverse_schema has returned to
\* add_aliases_to_avro_schema, which returns the schema.
Continue(newStack) ==
    /\ stack' = newStack
    /\ status' = IF newStack = <<>> THEN "returned" ELSE "running"

\* a faulty variant: the KeyError is caught in the loop, which goes on to the next field
Raise_Swallowed ==
    /\ stack' = Rest \o <<Frame("traverse_schema", Top.path, Top.i + 1)>>
    /\ status' = "running"

\* An uncaught KeyError unwinds every call.
Raise ==
    /\ stack' = <<>>
    /\ status' = "raised"

InitOf(maxNodes, prefixes) ==
    /\ \E n \in 1..maxNodes : schema \in Schemas(n)
    /\ prepend_subject_name \in prefixes
    /\ stack = <<>>
    /\ status = "idle"
    /\ runs = 0
    /\ before = schema
    /\ input = schema
    /\ name = <<>>
    /\ snake = <<>>

\* a schema of up to MaxNodes nodes has been loaded; the prefix is "User"
Init == InitOf(MaxNodes, {PrefixUser})

\* add_aliases_to_avro_schema(schema, prepend_subject_name) is called
Call ==
    /\ status = "idle"
    /\ runs' = runs + 1
    /\ before' = schema
    /\ stack' = <<Frame("traverse_schema", <<>>, 0)>>
    /\ status' = "running"
    /\ UNCHANGED <<schema, prepend_subject_name, input, name, snake>>

AtEntry ==
    /\ status = "running"
    /\ Top.fn = "traverse_schema"
    /\ Top.i = 0

\* a faulty variant: schema.setdefault("fields", []) in place of schema.get("fields", [])
EnterRecord_SetDefault ==
    /\ AtEntry
    /\ DictGet(NodeAt(schema, Top.path), "type") = Str("record")
    /\ LET n == add_alias_to_record(NodeAt(schema, Top.path), prepend_subject_name)
       IN  schema' = Update(schema, Top.path,
                         IF Has(n, "fields") THEN n ELSE SetKey(n, "fields", <<>>))
    /\ Continue(Rest \o <<Frame("traverse_schema", Top.path, 1)>>)
    /\ UNCHANGED <<prepend_subject_name, runs, before, input, name, snake>>

\* traverse_schema, schema_type == "record": the record's alias
EnterRecord ==
    /\ AtEntry
    /\ DictGet(NodeAt(schema, Top.path), "type") = Str("record")
    /\ schema' = Update(schema, Top.path,
                     add_alias_to_record(NodeAt(schema, Top.path),
                                         prepend_subject_name))
    /\ Continue(Rest \o <<Frame("traverse_schema", Top.path, 1)>>)
    /\ UNCHANGED <<prepend_subject_name, runs, before, input, name, snake>>

\* traverse_schema, schema_type == "array"
EnterArray ==
    /\ AtEntry
    /\ DictGet(NodeAt(schema, Top.path), "type") = Str("array")
    /\ Continue(Rest \o Dispatch(Top.path \o <<Step("items", 0)>>,
                                 DictGet(NodeAt(schema, Top.path), "items")))
    /\ UNCHANGED <<schema, prepend_subject_name, runs, before, input, name, snake>>

\* a faulty variant: a map's values are traversed like an array's items
EnterOther_IntoMap ==
    /\ AtEntry
    /\ DictGet(NodeAt(schema, Top.path), "type") \notin {Str("record"), Str("array")}
    /\ Continue(Rest \o (IF DictGet(NodeAt(schema, Top.path), "type") = Str("map")
                         THEN Dispatch(Top.path \o <<Step("values", 0)>>,
                                       DictGet(NodeAt(schema, Top.path), "values"))
                         ELSE <<>>))
    /\ UNCHANGED <<schema, prepend_subject_name, runs, before, input, name, snake>>

\* traverse_schema, any other schema_type
EnterOther ==
    /\ AtEntry
    /\ DictGet(NodeAt(schema, Top.path), "type") \notin {Str("record"), Str("array")}
    /\ Continue(Rest)
    /\ UNCHANGED <<schema, prepend_subject_name, runs, before, input, name, snake>>

InLoop ==
    /\ status = "running"
    /\ Top.fn = "traverse_schema"
    /\ Top.i >= 1

\* schema.get("fields", [])
FieldsOf(node) == IF Has(node, "fields") THEN node.dict.fields ELSE <<>>

FieldPath == Top.path \o <<Step("fields", Top.i)>>

\* a faulty variant: the field's type is put aside and traversed after everything else
FieldTurn_Deferred ==
    /\ InLoop
    /\ Top.i <= Len(FieldsOf(NodeAt(schema, Top.path)))
    /\ LET field == NodeAt(schema, FieldPath)
       IN  /\ ~FieldNameError(field)
           /\ ~FieldTypeError(field)
           /\ schema' = Update(schema, FieldPath, add_alias_to_field(field))
           /\ Continue(Dispatch(FieldPath \o <<Step("type", 0)>>, field.dict.type)
                       \o Rest
                       \o <<Frame("traverse_schema", Top.path, Top.i + 1)>>)
    /\ UNCHANGED <<prepend_subject_name, runs, before, input, name, snake>>

\* one turn of the loop over the fields: the field's alias, then its type
FieldTurn ==
    /\ InLoop
    /\ Top.i <= Len(FieldsOf(NodeAt(schema, Top.path)))
    /\ LET field == NodeAt(schema, FieldPath)
       IN  /\ ~FieldNameError(field)
           /\ ~FieldTypeError(field)
           /\ schema' = Update(schema, FieldPath, add_alias_to_field(field))
           /\ Continue(Rest \o <<Frame("traverse_schema", Top.path, Top.i + 1)>>
                            \o Dispatch(FieldPath \o <<Step("type", 0)>>,
                                        field.dict.type))
    /\ UNCHANGED <<prepend_subject_name, runs, before, input, name, snake>>

\* add_alias_to_field raises KeyError: the field has no `name`
FieldRaisesName ==
    /\ InLoop
    /\ Top.i <= Len(FieldsOf(NodeAt(schema, Top.path)))
    /\ FieldNameError(NodeAt(schema, FieldPath))
    /\ Raise
    /\ UNCHANGED <<schema, prepend_subject_name, runs, before, input, name, snake>>

\* a faulty variant: field["type"] is read before add_alias_to_field is called
FieldRaisesType_TypeFirst ==
    /\ InLoop
    /\ Top.i <= Len(FieldsOf(NodeAt(schema, Top.path)))
    /\ ~FieldNameError(NodeAt(schema, FieldPath))
    /\ FieldTypeError(NodeAt(schema, FieldPath))
    /\ Raise
    /\ UNCHANGED <<schema, prepend_subject_name, runs, before, input, name, snake>>

\* field["type"] raises KeyError, after add_alias_to_field
FieldRaisesType ==
    /\ InLoop
    /\ Top.i <= Len(FieldsOf(NodeAt(schema, Top.path)))
    /\ LET field == NodeAt(schema, FieldPath)
       IN  /\ ~FieldNameError(field)
           /\ FieldTypeError(field)
           /\ schema' = Update(schema, FieldPath, add_alias_to_field(field))
    /\ Raise
    /\ UNCHANGED <<prepend_subject_name, runs, before, input, name, snake>>

\* the loop over the fields is over: traverse_schema returns
RecordReturn ==
    /\ InLoop
    /\ Top.i > Len(FieldsOf(NodeAt(schema, Top.path)))
    /\ Continue(Rest)
    /\ UNCHANGED <<schema, prepend_subject_name, runs, before, input, name, snake>>

InUnion ==
    /\ status = "running"
    /\ Top.fn = "_traverse_type"

\* one turn of _traverse_type's loop over a list
UnionTurn ==
    /\ InUnion
    /\ Top.i <= Len(NodeAt(schema, Top.path).list)
    /\ LET t == NodeAt(schema, Top.path).list[Top.i]
       IN  Continue(Rest \o <<Frame("_traverse_type", Top.path, Top.i + 1)>>
                         \o (IF IsDict(t)
                             THEN <<Frame("traverse_schema",
                                          Top.path \o <<Step("elem", Top.i)>>, 0)>>
                             ELSE <<>>))
    /\ UNCHANGED <<schema, prepend_subject_name, runs, before, input, name, snake>>

UnionReturn ==
    /\ InUnion
    /\ Top.i > Len(NodeAt(schema, Top.path).list)
    /\ Continue(Rest)
    /\ UNCHANGED <<schema, prepend_subject_name, runs, before, input, name, snake>>

Next ==
    \/ Call
    \/ EnterRecord
    \/ EnterArray
    \/ EnterOther
    \/ FieldTurn
    \/ FieldRaisesName
    \/ FieldRaisesType
    \/ RecordReturn
    \/ UnionTurn
    \/ UnionReturn

Spec == Init /\ [][Next]_vars

\* add_aliases_to_avro_schema is called again on the schema it returned
CallAgain ==
    /\ status = "returned"
    /\ runs < MaxRuns
    /\ runs' = runs + 1
    /\ before' = schema
    /\ stack' = <<Frame("traverse_schema", <<>>, 0)>>
    /\ status' = "running"
    /\ UNCHANGED <<schema, prepend_subject_name, input, name, snake>>

\* a smaller schema, and any of the prefixes: none, "User", "user"
InitRepeat == InitOf(MaxNodes - 1, Prefixes)

NextRepeat == Next \/ CallAgain

SpecRepeat == InitRepeat /\ [][NextRepeat]_vars

----------------------------------------------------------------------------
(* to_snake_case on its own *)

\* the characters of the names tried: two of [A-Z], a lowercase letter, a digit
Alphabet == {"A", "Z", "b", "7"}

Names == UNION {[1..n -> Alphabet] : n \in 0..MaxNameLen}

InitCaser ==
    /\ name \in Names
    /\ snake = <<>>
    /\ status = "idle"
    /\ schema = NoTypeNode
    /\ prepend_subject_name = <<>>
    /\ stack = <<>>
    /\ runs = 0
    /\ before = schema
    /\ input = schema

\* snake = to_snake_case(name)
Convert ==
    /\ status = "idle"
    /\ snake' = to_snake_case(name)
    /\ status' = "returned"
    /\ UNCHANGED <<schema, prepend_subject_name, stack, runs, before, input, name>>

NextCaser == Convert

SpecCaser == InitCaser /\ [][NextCaser]_vars

----------------------------------------------------------------------------
(* What the properties below speak of *)

IsRecordNode(x) == IsDict(x) /\ DictGet(x, "type") = Str("record")

IsFieldPath(p) == p # <<>> /\ p[Len(p)].key = "fields"

\* Every path of the tree below x, x being at path p, through every key that
\* holds a JSON value, each with what is at its end: "record" for a dict whose
\* type is "record" and that is not an entry of a `fields` list, "field" for
\* an entry of the `fields` list of such a record, "other" for the rest.
\* `entry` says what x itself is an entry of.
RECURSIVE PlacesFrom(_, _, _)
PlacesFrom(x, p, entry) ==
    {<<IF entry = "record fields" THEN "field"
       ELSE IF entry = "" /\ IsRecordNode(x) THEN "record"
       ELSE "other", p>>}
    \cup
    (IF IsDict(x)
     THEN UNION { PlacesFrom(x.dict[key], Append(p, Step(key, 0)), "") :
                  key \in DOMAIN x.dict \cap {"type", "items", "values"} }
          \cup (IF Has(x, "fields")
                THEN UNION { PlacesFrom(x.dict.fields[i],
                                        Append(p, Step("fields", i)),
                                        IF IsRecordNode(x) THEN "record fields"
                                                           ELSE "other fields") :
                             i \in 1..Len(x.dict.fields) }
                ELSE {})
     ELSE IF IsList(x)
     THEN UNION { PlacesFrom(x.list[i], Append(p, Step("elem", i)), "") :
                  i \in 1..Len(x.list) }
     ELSE {})

Places(x) == PlacesFrom(x, <<>>, "")

\* the paths of the places that are of one of the kinds
Among(places, kinds) == {m[2] : m \in {m \in places : m[1] \in kinds}}

\* every path of the tree x
Paths(x) == Among(Places(x), {"record", "field", "other"})

\* the record nodes of x, wherever they are
RecordPaths(x) == Among(Places(x), {"record"})

\* the field nodes of the records of x
FieldPaths(x) == Among(Places(x), {"field"})

\* the records and the fields of x
NodePaths(x) == Among(Places(x), {"record", "field"})

\* the alias list of a node, empty when the key is absent
Aliases(x) == IF Has(x, "aliases") THEN x.dict.aliases ELSE <<>>

Last(q) == q[Len(q)]

\* the alias list of the node at p has grown since the call began
Grew(p) == Len(Aliases(NodeAt(schema, p))) > Len(Aliases(NodeAt(before, p)))

\* the alias list at p is what it was when the call began, plus a at the end
GrewBy(p, a) == Aliases(NodeAt(schema, p)) = Append(Aliases(NodeAt(before, p)), a)

----------------------------------------------------------------------------
(* C5: to_snake_case *)

ClaimUpper == {"A", "Z"}
ClaimLower(c) == IF c = "A" THEN "a" ELSE IF c = "Z" THEN "z" ELSE c
Separators(o) == Cardinality({j \in 1..Len(o) : o[j] = "_"})

\* C5: for a name S of letters and digits, to_snake_case(S) is S lowercased
\* with one underscore before each uppercase letter that is not the first
\* character: with k such letters it has k underscores, no uppercase letter
\* and length Len(S) + k; every letter of a run of capitals gets its own
\* underscore (n capitals alone give n - 1); a name without uppercase letters
\* comes back unchanged, and the empty name gives the empty name.
C5_SnakeCase ==
    status = "returned" =>
        LET ups == {i \in 2..Len(name) : name[i] \in ClaimUpper}
            k == Cardinality(ups)
            shift(i) == Cardinality({j \in ups : j <= i})
        IN  /\ Len(snake) = Len(name) + k
            /\ Separators(snake) = k
            /\ \A j \in 1..Len(snake) : snake[j] \notin ClaimUpper
            /\ \A i \in 1..Len(name) :
                   /\ snake[i + shift(i)] = ClaimLower(name[i])
                   /\ i \in ups => snake[i + shift(i) - 1] = "_"
            /\ (name # <<>> /\ \A i \in 1..Len(name) : name[i] \in ClaimUpper)
                   => Separators(snake) = Len(name) - 1
            /\ (\A i \in 1..Len(name) : name[i] \notin ClaimUpper) => snake = name
            /\ name = <<>> => snake = <<>>

\* a name with a run of capitals after its first character has been converted
C5_Witness ==
    /\ status = "returned"
    /\ name = <<"b", "Z", "A", "7">>
    /\ snake = <<"b", "_", "z", "_", "a", "7">>

----------------------------------------------------------------------------
(* C1: every record and field of a well-formed schema gets its alias *)

\* the schema holds only primitive names, records, arrays and unions, a union
\* being a list of primitive names and objects
InlineOnly(x) ==
    \A p \in Paths(x) :
        /\ (IsDict(NodeAt(x, p)) /\ ~IsFieldPath(p))
               => DictGet(NodeAt(x, p), "type") \in {Str("record"), Str("array")}
        /\ IsList(NodeAt(x, p))
               => \A i \in 1..Len(NodeAt(x, p).list) : ~IsList(NodeAt(x, p).list[i])

\* C1: when add_aliases_to_avro_schema returns on a schema of primitive names,
\* records, arrays and unions, every record with a name and every field of
\* every record, at any depth, has the snake_case form of its name (for a
\* record, of the name without the prefix) as the last entry of its alias
\* list, and that entry is new.
C1_EveryNodeAliased ==
    (status = "returned" /\ InlineOnly(before)) =>
        /\ \A p \in RecordPaths(schema) :
               Has(NodeAt(schema, p), "name") =>
                   /\ Grew(p)
                   /\ Last(Aliases(NodeAt(schema, p))) =
                          to_snake_case(removeprefix(NodeAt(schema, p).dict.name,
                                                     prepend_subject_name))
        /\ \A p \in FieldPaths(schema) :
               /\ Grew(p)
               /\ Last(Aliases(NodeAt(schema, p))) =
                      to_snake_case(NodeAt(schema, p).dict.name)

\* the call has returned on a schema whose record is reached through a field's
\* type, an array's items and a union
C1_Witness ==
    /\ status = "returned"
    /\ InlineOnly(before)
    /\ \E p \in RecordPaths(schema) :
           /\ Len(p) = 3
           /\ p[1].key = "fields"
           /\ p[2].key = "type"
           /\ p[3].key \in {"items", "elem"}
           /\ Grew(p)

----------------------------------------------------------------------------
(* C2: nothing but `aliases` changes *)

\* the tree x without its `aliases` keys
RECURSIVE StripAliases(_)
StripAliases(x) ==
    IF IsDict(x)
    THEN Dict([key \in DOMAIN x.dict \ {"aliases"} |->
                  IF key \in {"type", "items", "values"}
                  THEN StripAliases(x.dict[key])
                  ELSE IF key = "fields"
                  THEN [i \in 1..Len(x.dict.fields) |->
                           StripAliases(x.dict.fields[i])]
                  ELSE x.dict[key]])
    ELSE IF IsList(x)
    THEN List([i \in 1..Len(x.list) |-> StripAliases(x.list[i])])
    ELSE x

\* C2: when the traversal completes, the tree without its `aliases` keys is
\* the tree it was without them: the same keys with the same values at every
\* node, every `name` as it was, every `fields` list in the same order.
C2_OnlyAliasesChange ==
    status = "returned" => StripAliases(schema) = StripAliases(before)

\* the call has returned after aliasing a record with two fields
C2_Witness ==
    /\ status = "returned"
    /\ IsRecordNode(schema)
    /\ Has(schema, "doc")
    /\ Len(FieldsOf(schema)) = 2
    /\ Grew(<<Step("fields", 1)>>)
    /\ Grew(<<Step("fields", 2)>>)
    /\ NodeAt(schema, <<Step("fields", 1)>>).dict.name
           # NodeAt(schema, <<Step("fields", 2)>>).dict.name

----------------------------------------------------------------------------
(* The order of the walk, as a function of the tree *)

\* The paths of the nodes handed to add_alias_to_record and add_alias_to_field,
\* in the order of the calls, when traverse_schema is called on the dict n at
\* path p and nothing raises: a record, then each field followed by what the
\* field's type holds; for an array, what its items hold.
RECURSIVE WalkSchema(_, _), WalkType(_, _), WalkFields(_, _, _), WalkUnion(_, _, _)
WalkSchema(n, p) ==
    IF IsRecordNode(n) THEN <<p>> \o WalkFields(FieldsOf(n), p, 1)
    ELSE IF DictGet(n, "type") = Str("array") /\ Has(n, "items")
    THEN WalkType(n.dict.items, Append(p, Step("items", 0)))
    ELSE <<>>

WalkType(n, p) ==
    IF IsDict(n) THEN WalkSchema(n, p)
    ELSE IF IsList(n) THEN WalkUnion(n.list, p, 1)
    ELSE <<>>

WalkFields(fs, p, i) ==
    IF i > Len(fs) THEN <<>>
    ELSE LET fp == Append(p, Step("fields", i))
         IN  <<fp>>
             \o (IF Has(fs[i], "type")
                 THEN WalkType(fs[i].dict.type, Append(fp, Step("type", 0)))
                 ELSE <<>>)
             \o WalkFields(fs, p, i + 1)

WalkUnion(l, p, i) ==
    IF i > Len(l) THEN <<>>
    ELSE (IF IsDict(l[i]) THEN WalkSchema(l[i], Append(p, Step("elem", i))) ELSE <<>>)
         \o WalkUnion(l, p, i + 1)

Walk(x) == WalkSchema(x, <<>>)

\* the places of Walk(x) that hold a field without `name` or without `type`
BadPlaces(x) ==
    LET w == Walk(x)
    IN  {j \in 1..Len(w) :
            /\ IsFieldPath(w[j])
            /\ (~Has(NodeAt(x, w[j]), "name") \/ ~Has(NodeAt(x, w[j]), "type"))}

Min(S) == CHOOSE j \in S : \A m \in S : j <= m

\* the nodes of the walk that are given an alias: the fields, and the records
\* that have a name
TakesAlias(x, p) == IsFieldPath(p) \/ Has(NodeAt(x, p), "name")

\* the alias the code derives for the node at p of x
Derived(x, p) ==
    IF IsFieldPath(p) THEN to_snake_case(NodeAt(x, p).dict.name)
    ELSE to_snake_case(removeprefix(NodeAt(x, p).dict.name, prepend_subject_name))

----------------------------------------------------------------------------
(* C3: one more alias per run *)

\* the alias list at p has grown by one entry per run since the schema was
\* loaded, the old entries kept in place
OneMorePerRun(p) ==
    LET old == Aliases(NodeAt(before, p))
        first == Aliases(NodeAt(input, p))
        now == Aliases(NodeAt(schema, p))
    IN  /\ Len(now) = Len(old) + 1
        /\ SubSeq(now, 1, Len(old)) = old
        /\ Len(now) = Len(first) + runs
        /\ SubSeq(now, 1, Len(first)) = first
        /\ \A j \in 1..runs : now[Len(first) + j] = now[Len(now)]

\* C3 as stated: a run that returns makes the alias list of every record and
\* every field in the tree grow by exactly one entry, appended at the end with
\* the earlier entries kept; after n runs each list ends with n copies of the
\* same alias.
C3_EveryNodeGrows ==
    status = "returned" =>
        \A p \in NodePaths(schema) : OneMorePerRun(p)

\* C3, amended: the same of every record that has a name and every field that
\* the traversal reaches, the n copies being the alias derived from the name.
C3_ReachedNodesGrow ==
    status = "returned" =>
        LET w == Walk(input)
        IN  \A j \in 1..Len(w) :
                TakesAlias(input, w[j]) =>
                    /\ OneMorePerRun(w[j])
                    /\ Last(Aliases(NodeAt(schema, w[j]))) = Derived(input, w[j])

\* the second run has returned: a record that came with one alias and its
\* field that came with none end with two copies of the derived alias
C3_Witness ==
    /\ status = "returned"
    /\ runs = 2
    /\ prepend_subject_name = PrefixUser
    /\ IsRecordNode(schema)
    /\ Aliases(schema) = <<OldAlias, <<"l","i","n","e","_","i","t","e","m">>,
                           <<"l","i","n","e","_","i","t","e","m">>>>
    /\ Len(FieldsOf(schema)) >= 1
    /\ Aliases(NodeAt(schema, <<Step("fields", 1)>>))
           = <<<<"o","r","d","e","r","_","i","d">>,
               <<"o","r","d","e","r","_","i","d">>>>

----------------------------------------------------------------------------
(* C4: the prefix *)

StartsWith(n, q) == \E m \in 0..Len(n) : n = q \o SubSeq(n, m + 1, Len(n))
Drop(n, m) == [i \in 1..(Len(n) - m) |-> n[i + m]]

SnakeOrderCreatedEvent ==
    <<"o","r","d","e","r","_","c","r","e","a","t","e","d","_","e","v","e","n","t">>
SnakeLineItem == <<"l","i","n","e","_","i","t","e","m">>

\* C4: the alias given to a record with name N, root or nested, is the
\* snake_case form of N without the prefix when N starts with the prefix,
\* letter for letter, and of N otherwise; the alias given to a field is the
\* snake_case form of its name, also when the name starts with the prefix.
\* "UserOrderCreatedEvent" with prefix "User" gives "order_created_event",
\* and "LineItem" with prefix "User" gives "line_item".
C4_PrefixOnRecordNames ==
    /\ \A p \in RecordPaths(before) :
           Grew(p) =>
               LET n == NodeAt(before, p).dict.name
                   a == Last(Aliases(NodeAt(schema, p)))
               IN  /\ a = to_snake_case(
                              IF StartsWith(n, prepend_subject_name)
                              THEN Drop(n, Len(prepend_subject_name))
                              ELSE n)
                   /\ (n = NameUserOrderCreatedEvent
                         /\ prepend_subject_name = PrefixUser)
                          => a = SnakeOrderCreatedEvent
                   /\ (n = NameLineItem /\ prepend_subject_name = PrefixUser)
                          => a = SnakeLineItem
    /\ \A p \in FieldPaths(before) :
           Grew(p) => Last(Aliases(NodeAt(schema, p)))
                          = to_snake_case(NodeAt(before, p).dict.name)

\* with prefix "User": the root record "UserOrderCreatedEvent", its field
\* "UserId" and the record "LineItem" inside that field have their aliases
C4_Witness ==
    /\ status = "returned"
    /\ prepend_subject_name = PrefixUser
    /\ IsRecordNode(schema)
    /\ Has(schema, "name")
    /\ schema.dict.name = NameUserOrderCreatedEvent
    /\ Aliases(schema) = <<SnakeOrderCreatedEvent>>
    /\ Len(FieldsOf(schema)) = 1
    /\ Aliases(NodeAt(schema, <<Step("fields", 1)>>))
           = <<OldAlias, <<"u","s","e","r","_","i","d">>>>
    /\ IsDict(NodeAt(schema, <<Step("fields", 1), Step("type", 0)>>))
    /\ Aliases(NodeAt(schema, <<Step("fields", 1), Step("type", 0)>>))
           = <<OldAlias, SnakeLineItem>>

----------------------------------------------------------------------------
(* C6: a field without `name` or `type` *)

\* C6: a field that lacks `name` or `type` makes the traversal fail: the
\* KeyError is caught nowhere, every call is unwound and the caller gets no
\* schema back; no record or field after the failing field, at any nesting
\* level, is processed.  A call returns only when the walk meets no such field.
C6_KeyErrorReachesCaller ==
    /\ status = "returned" => BadPlaces(before) = {}
    /\ status = "raised" =>
           /\ BadPlaces(before) # {}
           /\ stack = <<>>
           /\ ~ENABLED Next
           /\ LET w == Walk(before)
                  first == Min(BadPlaces(before))
              IN  \A j \in 1..Len(w) :
                      j > first => NodeAt(schema, w[j]) = NodeAt(before, w[j])

\* the traversal has failed on a field that is followed by another field
C6_Witness ==
    /\ status = "raised"
    /\ LET w == Walk(before)
           first == Min(BadPlaces(before))
       IN  \E j \in 1..Len(w) :
               /\ j > first
               /\ IsFieldPath(w[j])
               /\ Has(NodeAt(before, w[j]), "name")

----------------------------------------------------------------------------
(* C7: a record without `fields` *)

\* the node b with the alias a at the end of its alias list
WithAlias(b, a) ==
    Dict([key \in DOMAIN b.dict \cup {"aliases"} |->
             IF key = "aliases" THEN Append(Aliases(b), a) ELSE b.dict[key]])

\* the records of the walk that have no `fields` key
BareRecords(x) ==
    LET w == Walk(x)
    IN  {j \in 1..Len(w) : ~IsFieldPath(w[j]) /\ ~Has(NodeAt(x, w[j]), "fields")}

\* C7: a record without a `fields` key is handled as a record without fields:
\* it gets its own alias and nothing else, no `fields` key is added, its loop
\* takes no turn and raises nothing.
C7_MissingFieldsIsEmpty ==
    /\ \A p \in {Walk(before)[j] : j \in BareRecords(before)} :
           LET b == NodeAt(before, p)
               n == NodeAt(schema, p)
               done == IF Has(b, "name") THEN WithAlias(b, Derived(before, p)) ELSE b
           IN  /\ ~Has(n, "fields")
               /\ n \in {b, done}
               /\ status = "returned" => n = done
               /\ (InLoop /\ Top.path = p) =>
                      /\ n = done
                      /\ ENABLED RecordReturn
                      /\ ~ENABLED FieldTurn
                      /\ ~ENABLED FieldRaisesName
                      /\ ~ENABLED FieldRaisesType
    /\ (IsRecordNode(before) /\ ~Has(before, "fields")) => status # "raised"

\* the call has returned on a record that has a name and no `fields` key, met
\* inside the field of another record
C7_Witness ==
    /\ status = "returned"
    /\ \E p \in {Walk(before)[j] : j \in BareRecords(before)} :
           /\ Len(p) = 2
           /\ Has(NodeAt(before, p), "name")
           /\ NodeAt(schema, p) = WithAlias(NodeAt(before, p), Derived(before, p))

----------------------------------------------------------------------------
(* C8: types other than record and array *)

\* C8: a node whose `type` is neither "record" nor "array" (a primitive name,
\* "enum", "map", or no `type` at all) is left as it was with everything in
\* it: it gets no alias even when it has a name, and the records inside a
\* map's values get none.  An array gets no alias; nothing of it changes but
\* what its `items` hold.
C8_OtherTypesUntouched ==
    \A p \in Paths(before) :
        LET b == NodeAt(before, p)
            n == NodeAt(schema, p)
        IN  (IsDict(b) /\ ~IsFieldPath(p)) =>
                /\ DictGet(b, "type") \notin {Str("record"), Str("array")} => n = b
                /\ DictGet(b, "type") = Str("array") =>
                       /\ ~Has(n, "aliases")
                       /\ DOMAIN n.dict = DOMAIN b.dict
                       /\ \A key \in DOMAIN b.dict \ {"items"} : n.dict[key] = b.dict[key]

\* the call has returned after taking a field whose type is a map of named
\* records
C8_Witness ==
    /\ status = "returned"
    /\ IsRecordNode(schema)
    /\ Len(FieldsOf(schema)) = 1
    /\ Grew(<<Step("fields", 1)>>)
    /\ LET t == NodeAt(schema, <<Step("fields", 1), Step("type", 0)>>)
       IN  /\ IsDict(t)
           /\ DictGet(t, "type") = Str("map")
           /\ IsDict(DictGet(t, "values"))
           /\ Has(DictGet(t, "values"), "name")

----------------------------------------------------------------------------
(* C9: the order of the walk *)

\* every record and every field of the tree x, parents before children and
\* the entries of a list in their order
RECURSIVE TreeOrder(_, _), TreeOrderFields(_, _, _), TreeOrderList(_, _, _)
TreeOrder(x, p) ==
    LET n == NodeAt(x, p)
    IN  IF IsDict(n)
        THEN (IF p \in NodePaths(x) THEN <<p>> ELSE <<>>)
             \o TreeOrderFields(x, p, 1)
             \o (IF Has(n, "type") THEN TreeOrder(x, p \o <<Step("type", 0)>>)
                                   ELSE <<>>)
             \o (IF Has(n, "items") THEN TreeOrder(x, p \o <<Step("items", 0)>>)
                                    ELSE <<>>)
             \o (IF Has(n, "values") THEN TreeOrder(x, p \o <<Step("values", 0)>>)
                                     ELSE <<>>)
        ELSE IF IsList(n) THEN TreeOrderList(x, p, 1)
        ELSE <<>>

TreeOrderFields(x, p, i) ==
    IF i > Len(FieldsOf(NodeAt(x, p))) THEN <<>>
    ELSE TreeOrder(x, p \o <<Step("fields", i)>>) \o TreeOrderFields(x, p, i + 1)

TreeOrderList(x, p, i) ==
    IF i > Len(NodeAt(x, p).list) THEN <<>>
    ELSE TreeOrder(x, p \o <<Step("elem", i)>>) \o TreeOrderList(x, p, i + 1)

\* the records and fields whose alias list has grown in this call
Aliased == {p \in NodePaths(before) : Grew(p)}

IsPrefixSet(S, q) == \E m \in 0..Len(q) : S = {q[j] : j \in 1..m}

\* p is q or above q in the tree
IsAbove(p, q) == Len(p) <= Len(q) /\ SubSeq(q, 1, Len(p)) = p

\* the nodes of the walk that are given an alias, in the order of the walk
Targets(x) == LET takes(p) == TakesAlias(x, p) IN SelectSeq(Walk(x), takes)

\* a record's alias comes before its fields are touched; a field's alias
\* before anything inside its type changes; everything inside the type of
\* field i has its alias before field i + 1 gets its own
AliasThenDescend ==
    LET places == Places(before)
        records == Among(places, {"record"})
        fields == Among(places, {"field"})
        t == Targets(before)
    IN  /\ \A p \in records :
               \A i \in 1..Len(FieldsOf(NodeAt(before, p))) :
                   (Has(NodeAt(before, p), "name")
                      /\ NodeAt(schema, p \o <<Step("fields", i)>>)
                             # NodeAt(before, p \o <<Step("fields", i)>>))
                       => Grew(p)
        /\ \A f \in fields :
               (Has(NodeAt(before, f), "type")
                  /\ NodeAt(schema, f \o <<Step("type", 0)>>)
                         # NodeAt(before, f \o <<Step("type", 0)>>))
                   => Grew(f)
        /\ \A p \in records :
               \A i \in 1..(Len(FieldsOf(NodeAt(before, p))) - 1) :
                   Grew(p \o <<Step("fields", i + 1)>>) =>
                       \A j \in 1..Len(t) :
                           IsAbove(p \o <<Step("fields", i), Step("type", 0)>>, t[j])
                               => Grew(t[j])

\* C9 as stated: the walk is depth-first in declaration order, alias first
\* and descent after, and in every state the nodes already aliased are a
\* prefix of the pre-order sequence of the records and fields of the tree.
C9_PrefixOfAllNodes ==
    /\ AliasThenDescend
    /\ LET done == Aliased
           order == TreeOrder(before, <<>>)
       IN  IsPrefixSet(done, order)

\* C9, amended: the same, the sequence being that of the records with a name
\* and the fields that the traversal reaches.
C9_PrefixOfReachedNodes ==
    /\ AliasThenDescend
    /\ LET done == Aliased
           order == Targets(before)
       IN  IsPrefixSet(done, order)

\* the second field of the root has its alias, after the record inside the
\* first field's type got its own
C9_Witness ==
    /\ status = "running"
    /\ IsRecordNode(schema)
    /\ Has(schema, "name")
    /\ Len(FieldsOf(schema)) = 2
    /\ Grew(<<Step("fields", 2)>>)
    /\ IsDict(NodeAt(schema, <<Step("fields", 1), Step("type", 0)>>))
    /\ Grew(<<Step("fields", 1), Step("type", 0)>>)

----------------------------------------------------------------------------
(* C10: no rollback *)

\* the field the traversal failed on
Failing == Walk(before)[Min(BadPlaces(before))]

\* what C10 says of the nodes before, at and after the failing field
PartlyAliased ==
    LET w == Walk(before)
        first == Min(BadPlaces(before))
        failing == w[first]
    IN  /\ Has(NodeAt(before, failing), "name")
               => GrewBy(failing, Derived(before, failing))
        /\ ~Has(NodeAt(before, failing), "name")
               => NodeAt(schema, failing) = NodeAt(before, failing)
        /\ \A j \in 1..Len(w) :
               /\ (j < first /\ TakesAlias(before, w[j]))
                      => GrewBy(w[j], Derived(before, w[j]))
               /\ j > first
                      => Aliases(NodeAt(schema, w[j])) = Aliases(NodeAt(before, w[j]))

\* an alias was added before the traversal failed
SomeAliasAdded ==
    LET w == Walk(before)
        first == Min(BadPlaces(before))
    IN  \/ Has(NodeAt(before, w[first]), "name")
        \/ \E j \in 1..(first - 1) : TakesAlias(before, w[j])

\* C10 as stated: after a failure the failing field has its new alias when it
\* lacks `type` and is unchanged when it lacks `name`, every record and field
\* before it keeps its new alias, every one after it has none, and the tree
\* differs from the tree before the call whenever a node was visited (the
\* root always is).
C10_TreeAlwaysDiffers ==
    status = "raised" => (PartlyAliased /\ schema # before)

\* C10, amended: the same, the tree differing from the tree before the call
\* exactly when an alias was added before the failure.
C10_TreeDiffersIfAliased ==
    status = "raised" => (PartlyAliased /\ (schema # before <=> SomeAliasAdded))

\* the traversal has failed on a field without `type`, the second of a record
\* with a name
C10_Witness ==
    /\ status = "raised"
    /\ Has(before, "name")
    /\ Failing = <<Step("fields", 2)>>
    /\ Has(NodeAt(before, Failing), "name")
    /\ Len(FieldsOf(before)) = 3

====
